---- MODULE Spec2Model ----
(***************************************************************************)
(* SimCIS: continual image segmentation with pseudo-labels and virtual     *)
(* query replay.  The module models                                        *)
(*   - MaskFormer.generate_psd_targets and the complete-target fusion of   *)
(*     SetCriterion.forward                       (specification SpecPsd)  *)
(*   - the per-class Query Library: insertion in MaskFormer.forward, the   *)
(*     end-of-task merge of Trainer.after_train and the load in            *)
(*     MaskFormer.__init__                        (specification SpecLib)  *)
(*   - the Matching Adapter and the normalizer of SetCriterion.forward     *)
(*                                                (specification SpecCrit) *)
(*   - the replay sampler and query concatenation of the decoder           *)
(*                                                (specification SpecDec)  *)
(*   - the derivation of the previous task's directory                     *)
(*                                                (specification SpecPath) *)
(*   - SetCriterion.loss_labels                   (specification SpecLoss) *)
(*   - the two branches of Trainer.after_train    (specification SpecHist) *)
(* Units: a mask probability p stands for p/4, a score s for s/10, the     *)
(* overlap threshold t for t/10.  A raster is one row of NPix pixels.      *)
(***************************************************************************)
EXTENDS Integers, Sequences, FiniteSets, TLC

VARIABLES
    pc,                     \* which step of the modelled pass has run
    psd_overlap_threshold,  \* MaskFormer.psd_overlap_threshold (tenths)
    combine_psdlabel,       \* MaskFormer.combine_psdlabel
    gt_target,              \* targets[i]: the real Target of the image
    old_pred,               \* old_pred[i]: the old model's predictions, or NoPred
    keep,                   \* generate_psd_targets: the keep vector of the image
    psd_target,             \* psd_targets[i]
    raised,                 \* an exception left the modelled call
    complete_psd_target,    \* SetCriterion.forward: complete_psd_targets[i]
    store_psd_target,       \* MaskFormer.forward, store section: complete_psd_targets[i]
    task,                   \* cfg.CONT.TASK of the running task
    iter,                   \* Trainer.iter
    world_size,             \* number of worker processes
    dist_initialized,       \* dist.is_initialized()
    collect,                \* MaskFormer.collect of every rank
    matched,                \* the target classes matched in the running step, per rank
    files,                  \* fake_query.pkl of every task's output directory
    vq_number,              \* cfg.CONT.VQ_NUMBER
    fake_query_labels,      \* the labels the replay sampler drew for the image, or None
    indices,                \* the matcher's (prediction, target) indices of the image
    new_indices,            \* _modify_indices_targets_for_fake_query: extended match
    new_targets,            \* _modify_indices_targets_for_fake_query: extended target
    batch_targets,          \* per rank, the label count of every complete target
    num_masks,              \* per rank, the normalizer of SetCriterion.forward
    n_cls_in_tasks,         \* class count of every task up to the current one
    training,               \* nn.Module.training
    collect_query_mode,     \* cfg.CONT.COLLECT_QUERY_MODE
    weighted_sample,        \* cfg.CONT.WEIGHTED_SAMPLE
    psd_dis,                \* the decoder's sampling weights, built in __init__
    num_queries,            \* cfg.MODEL.MASK_FORMER.NUM_OBJECT_QUERIES
    tgt_slots,              \* query slots per image of the decoder's query set
    med_feats,              \* topk_feats_info['med_feats'] of the image, slot by slot
    out_slots,              \* per output scope and prediction tensor, its query slots
    matcher_slots,          \* query slots of the prediction tensors given to the matcher
    scope,                  \* SetCriterion.forward: number of the output scope at work
    loss_inputs,            \* per loss of the scope at work, what get_loss was given
    output_dir,             \* cfg.OUTPUT_DIR, a string ending in the task number
    path_site,              \* the place that derives the previous task's directory
    old_root,               \* the derived directory of the previous task
    num_classes,            \* SetCriterion.num_classes
    target_classes_onehot,  \* loss_labels: per query slot, the classes set to 1
    psd_num,                \* per rank, MaskFormer.psd_num
    psd_file                \* psd_distribution.json of the output directory

psdVars == <<psd_overlap_threshold, combine_psdlabel, gt_target, old_pred,
             keep, psd_target, complete_psd_target, store_psd_target>>

libVars == <<task, iter, world_size, dist_initialized, collect, matched, files>>

critVars == <<vq_number, fake_query_labels, indices, new_indices, new_targets,
              matcher_slots, scope, loss_inputs>>

normVars == <<batch_targets, num_masks>>

decVars == <<n_cls_in_tasks, training, collect_query_mode, weighted_sample, psd_dis,
             num_queries, tgt_slots, med_feats, out_slots>>

pathVars == <<output_dir, path_site, old_root>>

lossVars == <<num_classes, target_classes_onehot>>

histVars == <<psd_num, psd_file>>

vars == <<pc, raised, psdVars, libVars, critVars, normVars, decVars, pathVars, lossVars,
          histVars>>

----------------------------------------------------------------------------
(* Bounds of the model *)

NPix == 2
MaxPred == 2

Pixels == 1..NPix

\* probabilities 0.25 and 0.5, scores 0.3 and 0.9, thresholds 0, 0.4, 0.8
Probs == {1, 2}
Scores == {3, 9}
Thresholds == {0, 4, 8}

\* task 2 of a 2+2 class split: classes 0,1 are old, 2,3 are current
OldLabels == {0, 1}
GtLabels == {1, 2}

\* old_pred is None when no old model runs (task 1)
NoPred == [given |-> FALSE, preds |-> <<>>]

----------------------------------------------------------------------------
(* Sequence helpers standing for tensor indexing and concatenation *)

RECURSIVE BoolIndex(_, _)
\* tensor[keep] with a boolean index
BoolIndex(s, k) ==
    IF s = <<>> THEN <<>>
    ELSE IF Head(k) THEN <<Head(s)>> \o BoolIndex(Tail(s), Tail(k))
         ELSE BoolIndex(Tail(s), Tail(k))

RECURSIVE SortedSeq(_)
\* torch.unique: the distinct values in ascending order
SortedSeq(S) ==
    IF S = {} THEN <<>>
    ELSE LET m == CHOOSE x \in S : \A y \in S : x <= y
         IN <<m>> \o SortedSeq(S \ {m})

RECURSIVE UnionAll(_)
UnionAll(ms) == IF ms = <<>> THEN {} ELSE Head(ms) \cup UnionAll(Tail(ms))

Range(s) == {s[i] : i \in DOMAIN s}

\* BitMasks.get_bounding_boxes: the extent of the mask, zeros for an empty mask
BoundingBox(m) ==
    IF m = {} THEN <<0, 0>>
    ELSE <<(CHOOSE a \in m : \A b \in m : a <= b) - 1,
           (CHOOSE a \in m : \A b \in m : a >= b)>>

EmptyTarget == [labels |-> <<>>, masks |-> <<>>, boxes |-> <<>>]

----------------------------------------------------------------------------
(* MaskFormer.generate_psd_targets, the body of the per-image loop *)

Binarize(p) == p >= 2

\* mutant: the strict score gate applied on the default path
ScoreKeepStrict(pred, strict_mode) ==
    [k \in DOMAIN pred |-> pred[k].score >= 4]

ScoreKeep(pred, strict_mode) ==
    [k \in DOMAIN pred |-> IF strict_mode THEN pred[k].score >= 4
                                          ELSE pred[k].score >= 0]

\* prob_masks.argmax(0): the first index of the maximal score * probability
ArgMax(old, p) ==
    CHOOSE k \in DOMAIN old :
        /\ \A j \in DOMAIN old :
               old[j].score * old[j].mask[p] <= old[k].score * old[k].mask[p]
        /\ \A j \in DOMAIN old :
               j < k => old[j].score * old[j].mask[p] < old[k].score * old[k].mask[p]

OldArea(old, k) == Cardinality({p \in Pixels : Binarize(old[k].mask[p])})

GtRegion(gt) == UnionAll(gt.masks)

\* mutant: a prediction keeps every pixel of its binarized mask, owned or not
NonOlMaskNoArgmax(old, gt, k) ==
    {p \in Pixels : Binarize(old[k].mask[p])} \ GtRegion(gt)

\* mutant: the ground-truth region is not subtracted
NonOlMaskKeepGt(old, gt, k) ==
    {p \in Pixels : ArgMax(old, p) = k /\ Binarize(old[k].mask[p])}

NonOlMask(old, gt, k) ==
    {p \in Pixels : ArgMax(old, p) = k /\ Binarize(old[k].mask[p])} \ GtRegion(gt)

SelectedMask(old, k) == {p \in Pixels : ArgMax(old, p) = k}

\* mutant: the new_area > 0 guard is dropped and the comparison is not strict
KeepMaskNoGuard(old, gt, thr, strict_mode) ==
    [k \in DOMAIN old |->
        10 * Cardinality({p \in Pixels : ArgMax(old, p) = k
                                         /\ Binarize(old[k].mask[p])
                                         /\ p \notin UnionAll(gt.masks)})
            >= Cardinality({p \in Pixels : Binarize(old[k].mask[p])}) * thr]

KeepMask(old, gt, thr, strict_mode) ==
    [k \in DOMAIN old |->
        LET new_area == Cardinality(NonOlMask(old, gt, k))
            old_area == OldArea(old, k)
            argmax_area == Cardinality(SelectedMask(old, k))
        IN IF strict_mode
           THEN /\ new_area > 0
                /\ 10 * new_area > old_area * thr
                /\ 10 * old_area > argmax_area * thr
           ELSE /\ new_area > 0
                /\ 10 * new_area > old_area * thr]

\* torch.stack raises on an empty list
TorchStackRaises(list) == list = <<>>

\* mutant: the surviving regions of one label are not merged
FusePsdTargetNoMerge(labels, select_masks) ==
    [labels |-> labels,
     masks |-> select_masks,
     boxes |-> [j \in DOMAIN select_masks |-> BoundingBox(select_masks[j])],
     raised |-> FALSE]

\* mutant: torch.stack is called without the len(temp_masks) > 0 guard
FusePsdTargetUnguarded(labels, select_masks) ==
    LET unique_labels == SortedSeq(Range(labels))
        temp_masks == [u \in DOMAIN unique_labels |->
                         UnionAll(BoolIndex(select_masks,
                             [j \in DOMAIN labels |-> labels[j] = unique_labels[u]]))]
    IN [labels |-> unique_labels,
        masks |-> temp_masks,
        boxes |-> [u \in DOMAIN temp_masks |-> BoundingBox(temp_masks[u])],
        raised |-> TorchStackRaises(temp_masks)]

FusePsdTarget(labels, select_masks) ==
    LET unique_labels == SortedSeq(Range(labels))
        temp_masks == [u \in DOMAIN unique_labels |->
                         UnionAll(BoolIndex(select_masks,
                             [j \in DOMAIN labels |-> labels[j] = unique_labels[u]]))]
    IN IF Len(temp_masks) > 0
       THEN [labels |-> unique_labels,
             masks |-> temp_masks,
             boxes |-> [u \in DOMAIN temp_masks |-> BoundingBox(temp_masks[u])],
             raised |-> TorchStackRaises(temp_masks)]
       ELSE [labels |-> unique_labels, masks |-> <<>>, boxes |-> <<>>,
             raised |-> FALSE]

\* mutant: the labels of the pseudo-target are not filtered by keep
generate_psd_targets_all_labels(gt, pred, thr, combine, strict_mode) ==
    LET keep0 == ScoreKeep(pred, strict_mode)
        old == BoolIndex(pred, keep0)
    IN IF Len(old) = 0
       THEN [keep |-> <<>>, labels |-> <<>>, masks |-> <<>>, boxes |-> <<>>,
             raised |-> FALSE]
       ELSE LET k1 == KeepMask(old, gt, thr, strict_mode)
                select_masks ==
                    BoolIndex([k \in DOMAIN old |-> NonOlMask(old, gt, k)], k1)
            IN [keep |-> k1, labels |-> [k \in DOMAIN old |-> old[k].label],
                masks |-> select_masks,
                boxes |-> [j \in DOMAIN select_masks |-> BoundingBox(select_masks[j])],
                raised |-> FALSE]

generate_psd_targets(gt, pred, thr, combine, strict_mode) ==
    LET keep0 == ScoreKeep(pred, strict_mode)
        old == BoolIndex(pred, keep0)
    IN IF Len(old) = 0
       THEN [keep |-> <<>>, labels |-> <<>>, masks |-> <<>>, boxes |-> <<>>,
             raised |-> FALSE]
       ELSE LET k1 == KeepMask(old, gt, thr, strict_mode)
                labels == BoolIndex([k \in DOMAIN old |-> old[k].label], k1)
                select_masks ==
                    BoolIndex([k \in DOMAIN old |-> NonOlMask(old, gt, k)], k1)
            IN IF combine
               THEN [keep |-> k1] @@ FusePsdTarget(labels, select_masks)
               ELSE [keep |-> k1, labels |-> labels, masks |-> select_masks,
                     boxes |-> [j \in DOMAIN select_masks |->
                                   BoundingBox(select_masks[j])],
                     raised |-> FALSE]

----------------------------------------------------------------------------
(* SetCriterion.forward: memory flag and complete target of one image *)

current_catagory_ids == {2, 3}

MemoryPart(t) == \E i \in DOMAIN t.labels : t.labels[i] \notin current_catagory_ids

\* mutant: the memory-image flag is ignored
CompleteTargetNoMemory(psd_given, p, t) ==
    IF ~psd_given
    THEN t
    ELSE [labels |-> p.labels \o t.labels,
          masks |-> p.masks \o t.masks,
          boxes |-> p.boxes \o t.boxes]

CompleteTarget(psd_given, p, t) ==
    IF ~psd_given
    THEN t
    ELSE IF MemoryPart(t)
         THEN [labels |-> t.labels, masks |-> t.masks, boxes |-> t.boxes]
         ELSE [labels |-> p.labels \o t.labels,
               masks |-> p.masks \o t.masks,
               boxes |-> p.boxes \o t.boxes]

----------------------------------------------------------------------------
(* Inputs of one image *)

Predictions ==
    [label : OldLabels, score : Scores, mask : [Pixels -> Probs]]

PredLists == UNION {[1..n -> Predictions] : n \in 0..MaxPred}

\* the annotations of an image: detectron2 Instances, whose fields have one
\* entry per instance
GtInstances ==
    {[gt_classes |-> <<>>, gt_masks |-> <<>>, gt_boxes |-> <<>>]} \cup
    {[gt_classes |-> <<l>>, gt_masks |-> <<m>>, gt_boxes |-> <<BoundingBox(m)>>] :
        l \in GtLabels, m \in (SUBSET Pixels) \ {{}}}

\* prepare_targets: labels, padded masks and the boxes of the annotations
prepare_targets(targets_per_image) ==
    [labels |-> targets_per_image.gt_classes,
     masks |-> [i \in DOMAIN targets_per_image.gt_masks |->
                  targets_per_image.gt_masks[i] \cap Pixels],
     boxes |-> [i \in DOMAIN targets_per_image.gt_boxes |->
                  targets_per_image.gt_boxes[i]]]

GtTargets == {prepare_targets(inst) : inst \in GtInstances}

IdlePsd ==
    /\ psd_overlap_threshold = 0
    /\ combine_psdlabel = FALSE
    /\ gt_target = EmptyTarget
    /\ old_pred = NoPred
    /\ keep = <<>>
    /\ psd_target = EmptyTarget
    /\ complete_psd_target = EmptyTarget
    /\ store_psd_target = EmptyTarget

IdleLib ==
    /\ task = 1
    /\ iter = 0
    /\ world_size = 1
    /\ dist_initialized = FALSE
    /\ collect = <<>>
    /\ matched = <<>>
    /\ files = <<>>

NoMatch == [src |-> <<>>, tgt |-> <<>>]
NoLabels == [given |-> FALSE, labels |-> <<>>]

IdleCrit ==
    /\ vq_number = 0
    /\ fake_query_labels = NoLabels
    /\ indices = NoMatch
    /\ new_indices = NoMatch
    /\ new_targets = EmptyTarget
    /\ matcher_slots = 0
    /\ scope = 0
    /\ loss_inputs = <<>>

IdlePath ==
    /\ output_dir = <<>>
    /\ path_site = "none"
    /\ old_root = <<>>

IdleLoss ==
    /\ num_classes = 0
    /\ target_classes_onehot = <<>>

NoPsdFile == [exists |-> FALSE, data |-> <<>>, writers |-> {}]

IdleHist ==
    /\ psd_num = <<>>
    /\ psd_file = NoPsdFile

IdleNorm ==
    /\ batch_targets = <<>>
    /\ num_masks = <<>>

IdleDec ==
    /\ n_cls_in_tasks = <<>>
    /\ training = FALSE
    /\ collect_query_mode = FALSE
    /\ weighted_sample = FALSE
    /\ psd_dis = <<>>
    /\ num_queries = 0
    /\ tgt_slots = 0
    /\ med_feats = <<>>
    /\ out_slots = <<>>

InitPsd ==
    /\ IdleLib
    /\ IdleCrit
    /\ IdleNorm
    /\ IdleDec
    /\ IdlePath
    /\ IdleLoss
    /\ IdleHist
    /\ pc = "input"
    /\ psd_overlap_threshold \in Thresholds
    /\ combine_psdlabel \in BOOLEAN
    /\ gt_target \in GtTargets
    /\ old_pred \in [given : {TRUE}, preds : PredLists] \cup {NoPred}
    /\ keep = <<>>
    /\ psd_target = EmptyTarget
    /\ raised = FALSE
    /\ complete_psd_target = EmptyTarget
    /\ store_psd_target = EmptyTarget

\* MaskFormer.forward: psd_targets of the image when old_pred is given
GeneratePsdTargets ==
    /\ pc = "input"
    /\ old_pred.given
    /\ LET r == generate_psd_targets(gt_target, old_pred.preds, psd_overlap_threshold,
                                     combine_psdlabel, FALSE)
       IN /\ keep' = r.keep
          /\ psd_target' = [labels |-> r.labels, masks |-> r.masks, boxes |-> r.boxes]
          /\ raised' = r.raised
          /\ pc' = IF r.raised THEN "raised" ELSE "psd"
    /\ UNCHANGED <<psd_overlap_threshold, combine_psdlabel, gt_target, old_pred,
                   complete_psd_target, store_psd_target, libVars, critVars, normVars, pathVars, lossVars, histVars, decVars>>

\* SetCriterion.forward with pseudo-targets
CriterionComplete ==
    /\ pc = "psd"
    /\ complete_psd_target' = CompleteTarget(TRUE, psd_target, gt_target)
    /\ pc' = "complete"
    /\ UNCHANGED <<psd_overlap_threshold, combine_psdlabel, gt_target, old_pred,
                   keep, psd_target, store_psd_target, raised, libVars, critVars, normVars, pathVars, lossVars, histVars, decVars>>

\* SetCriterion.forward without an old model: criterion(outputs, targets)
CriterionNoOldPred ==
    /\ pc = "input"
    /\ ~old_pred.given
    /\ complete_psd_target' = CompleteTarget(FALSE, EmptyTarget, gt_target)
    /\ pc' = "complete"
    /\ UNCHANGED <<psd_overlap_threshold, combine_psdlabel, gt_target, old_pred,
                   keep, psd_target, store_psd_target, raised, libVars, critVars, normVars, pathVars, lossVars, histVars, decVars>>

\* torch.cat([p[key], t[key]]) for the three keys
CatTargets(p, t) ==
    [labels |-> p.labels \o t.labels,
     masks |-> p.masks \o t.masks,
     boxes |-> p.boxes \o t.boxes]

\* MaskFormer.forward, "store fake query": the complete target the section
\* builds for the matcher from precise_targets, the second result of
\* generate_psd_targets, and the real Target
StoreCompleteTarget ==
    /\ pc = "complete"
    /\ store_psd_target' =
           IF old_pred.given
           THEN LET r == generate_psd_targets(gt_target, old_pred.preds,
                                              psd_overlap_threshold, combine_psdlabel, FALSE)
                IN CatTargets([labels |-> r.labels, masks |-> r.masks, boxes |-> r.boxes],
                              gt_target)
           ELSE gt_target
    /\ pc' = "store"
    /\ UNCHANGED <<psd_overlap_threshold, combine_psdlabel, gt_target, old_pred,
                   keep, psd_target, complete_psd_target, raised, libVars, critVars,
                   normVars, pathVars, lossVars, histVars, decVars>>

NextPsd ==
    GeneratePsdTargets \/ CriterionComplete \/ CriterionNoOldPred \/ StoreCompleteTarget

SpecPsd == InitPsd /\ [][NextPsd]_vars

----------------------------------------------------------------------------
(* The Query Library: collections.deque, MaskFormer.collect, fake_query.pkl *)

\* cfg.CONT.LIB_SIZE, cfg.SOLVER.MAX_ITER, the number of workers and the length
\* of the task chain, scaled down
LibSize == 2
MaxIter == 2
MaxWorld == 2
MaxTask == 3

Classes == {0, 1}

Ranks == 0..(world_size - 1)

\* collections.deque(maxlen=n)
NewDeque(n) == [bounded |-> TRUE, maxlen |-> n, items |-> <<>>]

\* mutant: list.append, nothing is evicted
DequeAppendNoEvict(d, x) == [d EXCEPT !.items = @ \o <<x>>]

\* deque.append: a full bounded deque drops its oldest item first
DequeAppend(d, x) ==
    IF d.bounded /\ Len(d.items) >= d.maxlen
    THEN IF d.maxlen = 0 THEN d
         ELSE [d EXCEPT !.items = Tail(@) \o <<x>>]
    ELSE [d EXCEPT !.items = @ \o <<x>>]

RECURSIVE DequeExtend(_, _)
\* deque.extend: append item by item
DequeExtend(d, xs) ==
    IF xs = <<>> THEN d ELSE DequeExtend(DequeAppend(d, Head(xs)), Tail(xs))

\* self.collect = {}
EmptyDict == [default_factory |-> FALSE, bufs |-> <<>>]

\* world_size as MaskFormer.forward computes it
ForwardWorldSize == IF dist_initialized THEN world_size ELSE 1

\* the per-worker deque a training step creates for a class it has not seen
StepDeque(ws) == NewDeque(LibSize \div ws)

\* MaskFormer.forward: one matched (query, target) pair stored under gt_class
StoreFeature(dict, gt_class, feat, ws) ==
    LET d1 == IF gt_class \in DOMAIN dict.bufs
              THEN dict
              ELSE [dict EXCEPT !.bufs = (gt_class :> StepDeque(ws)) @@ @]
    IN [d1 EXCEPT !.bufs[gt_class] = DequeAppend(@, feat)]

RECURSIVE StoreMatched(_, _, _, _)
\* the loop over the matched pairs of the batch
StoreMatched(dict, gt_classes, feat, ws) ==
    IF gt_classes = <<>> THEN dict
    ELSE StoreMatched(StoreFeature(dict, Head(gt_classes), feat, ws),
                      Tail(gt_classes), feat, ws)

\* mutant: the merged deque has no maxlen
deque_factory_unbounded(maxlen) == [bounded |-> FALSE, maxlen |-> maxlen, items |-> <<>>]

\* deque_factory(maxlen), bound to cfg.CONT.LIB_SIZE by functools.partial
deque_factory(maxlen) == NewDeque(maxlen)

RECURSIVE ExtendKeys(_, _, _)
\* for key, deque_value in gpu_collect.items(): combined_collect[key].extend(...)
ExtendKeys(combined, gpu_collect, keys) ==
    IF keys = {} THEN combined
    ELSE LET key == CHOOSE k \in keys : TRUE
             cur == IF key \in DOMAIN combined.bufs
                    THEN combined.bufs[key]
                    ELSE deque_factory(LibSize)
             ext == DequeExtend(cur, gpu_collect.bufs[key].items)
         IN ExtendKeys([combined EXCEPT !.bufs = (key :> ext) @@ @],
                       gpu_collect, keys \ {key})

RECURSIVE CombineCollect(_, _, _)
\* for gpu_collect in gathered_collect, in rank order
CombineCollect(combined, gathered, r) ==
    IF r \notin DOMAIN gathered THEN combined
    ELSE CombineCollect(ExtendKeys(combined, gathered[r], DOMAIN gathered[r].bufs),
                        gathered, r + 1)

\* torch.save of the combined defaultdict: one pickled deque per key
Pickle(dict) ==
    {<<c, dict.bufs[c].bounded, dict.bufs[c].maxlen, dict.bufs[c].items>> :
        c \in DOMAIN dict.bufs}

\* torch.load: the defaultdict with its deques, maxlen included
Unpickle(data) ==
    [default_factory |-> TRUE,
     bufs |-> [c \in {e[1] : e \in data} |->
                 LET e == CHOOSE e \in data : e[1] = c
                 IN [bounded |-> e[2], maxlen |-> e[3], items |-> e[4]]]]

NoFile == [exists |-> FALSE, data |-> {}, writers |-> {}]

\* mutant: every rank saves the file
IsWriterAnyRank(r) == TRUE

\* if dist.get_rank() == 0
IsWriter(r) == r = 0

\* the matched classes one worker stores in one training step
MatchedClasses == {<<>>} \cup {<<c>> : c \in Classes}

\* a stored feature vector, tagged with the task and rank that produced it
Feature(t, r) == [task |-> t, rank |-> r]

InitLib ==
    /\ IdlePsd
    /\ IdleCrit
    /\ IdleNorm
    /\ IdleDec
    /\ IdlePath
    /\ IdleLoss
    /\ IdleHist
    /\ pc = "train"
    /\ raised = FALSE
    /\ task = 1
    /\ iter = 0
    /\ world_size \in 1..MaxWorld
    /\ dist_initialized \in BOOLEAN
    /\ ~dist_initialized => world_size = 1
    /\ collect = [r \in Ranks |-> EmptyDict]
    /\ matched = [r \in Ranks |-> <<>>]
    /\ files = [t \in 1..MaxTask |-> NoFile]

\* one training iteration: every worker runs MaskFormer.forward on its shard
TrainStep ==
    /\ pc = "train"
    /\ iter < MaxIter
    /\ matched' \in [Ranks -> MatchedClasses]
    /\ collect' = [r \in Ranks |->
                     StoreMatched(collect[r], matched'[r], Feature(task, r),
                                  ForwardWorldSize)]
    /\ iter' = iter + 1
    /\ UNCHANGED <<pc, raised, psdVars, critVars, normVars, pathVars, lossVars, histVars, decVars, task, world_size,
                   dist_initialized, files>>

\* Trainer.after_train in normal mode, reached with iter == MAX_ITER
AfterTrain ==
    /\ pc = "train"
    /\ iter = MaxIter
    /\ IF dist_initialized
       THEN LET gathered_collect == [r \in Ranks |-> collect[r]]
                combined_collect ==
                    CombineCollect([default_factory |-> TRUE, bufs |-> <<>>],
                                   gathered_collect, 0)
            IN /\ files' = [files EXCEPT ![task] =
                              [exists |-> TRUE, data |-> Pickle(combined_collect),
                               writers |-> {r \in Ranks : IsWriter(r)}]]
               /\ raised' = FALSE
       ELSE /\ files' = files
            /\ raised' = TRUE
    /\ pc' = "done"
    /\ matched' = [r \in Ranks |-> <<>>]
    /\ UNCHANGED <<psdVars, critVars, normVars, pathVars, lossVars, histVars, decVars, task, iter, world_size,
                   dist_initialized, collect>>

\* the training loop stops before MAX_ITER: after_train takes neither branch
StopEarly ==
    /\ pc = "train"
    /\ iter < MaxIter
    /\ pc' = "done"
    /\ matched' = [r \in Ranks |-> <<>>]
    /\ UNCHANGED <<raised, psdVars, critVars, normVars, pathVars, lossVars, histVars, decVars, task, iter, world_size,
                   dist_initialized, collect, files>>

\* MaskFormer.__init__ of the next task on every worker
NextTask ==
    /\ pc = "done"
    /\ task < MaxTask
    /\ task' = task + 1
    /\ iter' = 0
    /\ collect' = [r \in Ranks |->
                     IF files[task].exists
                     THEN Unpickle(files[task].data)
                     ELSE EmptyDict]
    /\ raised' = FALSE
    /\ pc' = "train"
    /\ UNCHANGED <<psdVars, critVars, normVars, pathVars, lossVars, histVars, decVars, world_size, dist_initialized,
                   matched, files>>

NextLib == TrainStep \/ AfterTrain \/ StopEarly \/ NextTask

SpecLib == InitLib /\ [][NextLib]_vars

----------------------------------------------------------------------------
(* The Matching Adapter: SetCriterion._modify_indices_targets_for_fake_query *)

MaxVq == 2
MaxTgt == 2

\* the query count written into the criterion
HardQueries == 100

\* values of cfg.MODEL.MASK_FORMER.NUM_OBJECT_QUERIES
NumQueriesChoices == {2, 3}

\* query slots a match refers to, and labels of complete-target entries
QueryIds == {0, 99}
TargetLabels == {0, 2}

\* torch.arange(a, b)
Arange(a, b) == [i \in 1..(IF b > a THEN b - a ELSE 0) |-> a + i - 1]

\* max(indice[1]) if len(indice[1]) > 0 else -1
MaxIndice(tgt) ==
    IF Len(tgt) > 0
    THEN CHOOSE m \in Range(tgt) : \A x \in Range(tgt) : x <= m
    ELSE 0 - 1

\* mutant: the appended target indices start at the largest matched index
FakeTargetIndicesFromMax(tgt, vq) == [i \in 1..vq |-> MaxIndice(tgt) + (i - 1)]

\* [max_indice + i + 1 for i in range(self.vq_number)]
FakeTargetIndices(tgt, vq) == [i \in 1..vq |-> MaxIndice(tgt) + (i - 1) + 1]

\* mutant: new_targets is the list that was passed in
deepcopy_missing(obj) == [alias |-> TRUE, value |-> obj]

\* copy.deepcopy(obj): a new object of equal value
deepcopy(obj) == [alias |-> FALSE, value |-> obj]

\* the function's results, and the values of its two arguments after the call
modify_indices_targets_for_fake_query(indice, target, fql, vq) ==
    IF ~fql.given
    THEN [indices |-> indice, targets |-> target,
          indices_after |-> indice, targets_after |-> target]
    ELSE LET new_targets_copy == deepcopy(target)
             new_indice == deepcopy(indice).value
             labels == new_targets_copy.value.labels \o fql.labels
         IN [indices |-> [src |-> new_indice.src \o Arange(HardQueries, HardQueries + vq),
                          tgt |-> new_indice.tgt \o FakeTargetIndices(indice.tgt, vq)],
             targets |-> [new_targets_copy.value EXCEPT !.labels = labels],
             \* new_indice[0], new_indice[1] are rebound to new tensors
             indices_after |-> indice,
             \* t['labels'] = torch.cat(...) rebinds the key of the dict at hand
             targets_after |-> IF new_targets_copy.alias
                               THEN [target EXCEPT !.labels = labels]
                               ELSE target]

\* the complete targets an image can have: labels with their masks and boxes
TargetsOf(labels) ==
    [labels |-> labels,
     masks |-> [i \in DOMAIN labels |-> {1}],
     boxes |-> [i \in DOMAIN labels |-> BoundingBox({1})]]

LabelSeqs(S, n) == UNION {[1..k -> S] : k \in 0..n}

\* v[:, :-fake_num] if fake_num > 0 else v, with fake_num = v.shape[1] - 100:
\* the query slots left in every prediction tensor
remove_fake_query(slots) ==
    LET fake_num == slots - HardQueries
    IN IF fake_num > 0 THEN slots - fake_num ELSE slots

\* what the matcher may return for the slots it is given and n targets:
\* distinct slots paired with distinct target indices, all targets or fewer;
\* the first and the last slot stand for all of them
CritMatchesFor(slots, n) ==
    {m \in [src : LabelSeqs({q \in QueryIds \cup {slots - 1} : q >= 0 /\ q < slots}, n),
             tgt : LabelSeqs(0..(n - 1), n)] :
        /\ Len(m.src) = Len(m.tgt)
        /\ \A i, j \in DOMAIN m.src : i # j => m.src[i] # m.src[j] /\ m.tgt[i] # m.tgt[j]}

\* the output scopes in the order SetCriterion.forward takes them, with one
\* auxiliary layer
ScopeOrder == <<"primary", "aux_outputs", "interm_outputs">>

\* self.losses without 'kd', which takes no match
Losses == {"labels", "masks", "points"}

NoLossInput == [given |-> FALSE, indices |-> NoMatch, targets |-> EmptyTarget]

\* the decoder's query count: the configured values next to the one the
\* criterion is written for
CritNumQueries == NumQueriesChoices \cup {HardQueries}

InitCrit ==
    /\ IdleLib
    /\ IdleNorm
    /\ IdlePath
    /\ IdleLoss
    /\ IdleHist
    /\ pc = "outputs"
    /\ raised = FALSE
    /\ psd_overlap_threshold = 0
    /\ combine_psdlabel = FALSE
    /\ gt_target = EmptyTarget
    /\ old_pred = NoPred
    /\ keep = <<>>
    /\ psd_target = EmptyTarget
    /\ \E labels \in LabelSeqs(TargetLabels, MaxTgt) :
           complete_psd_target = TargetsOf(labels)
    /\ store_psd_target = EmptyTarget
    /\ vq_number \in 0..MaxVq
    /\ fake_query_labels \in
           {NoLabels} \cup [given : {TRUE}, labels : [1..vq_number -> OldLabels]]
    /\ n_cls_in_tasks = <<>>
    /\ training = TRUE
    /\ collect_query_mode = FALSE
    /\ weighted_sample = FALSE
    /\ psd_dis = <<>>
    /\ num_queries \in CritNumQueries
    /\ tgt_slots \in {num_queries + vq_number} \cup
                     (IF fake_query_labels.given THEN {} ELSE {num_queries})
    /\ med_feats = <<>>
    /\ out_slots = <<>>
    /\ indices = NoMatch
    /\ matcher_slots = 0
    /\ scope = 0
    /\ loss_inputs = [l \in Losses |-> NoLossInput]
    /\ new_indices = NoMatch
    /\ new_targets = EmptyTarget

\* SetCriterion.forward, at the start of a scope: the synthetic slots are cut
\* off the scope's predictions and the matcher pairs the remaining slots with
\* the complete target
RemoveFakeQueryAndMatch ==
    /\ \/ pc = "outputs"
       \/ pc = "losses" /\ scope < Len(ScopeOrder)
    /\ scope' = scope + 1
    /\ matcher_slots' = remove_fake_query(tgt_slots)
    /\ indices' \in CritMatchesFor(matcher_slots', Len(complete_psd_target.labels))
    /\ loss_inputs' = [l \in Losses |-> NoLossInput]
    /\ pc' = "matched"
    /\ UNCHANGED <<raised, psdVars, libVars, normVars, pathVars, lossVars, histVars,
                   decVars, vq_number, fake_query_labels, new_indices, new_targets>>

\* SetCriterion.forward, loss 'labels' of the scope: the adapter runs and
\* get_loss is given its results
ModifyIndicesTargets ==
    /\ pc = "matched"
    /\ LET r == modify_indices_targets_for_fake_query(indices, complete_psd_target,
                                                      fake_query_labels, vq_number)
       IN /\ new_indices' = r.indices
          /\ new_targets' = r.targets
          /\ indices' = r.indices_after
          /\ complete_psd_target' = r.targets_after
          /\ loss_inputs' = [loss_inputs EXCEPT !["labels"] =
                                [given |-> TRUE, indices |-> r.indices,
                                 targets |-> r.targets]]
    /\ pc' = "modified"
    /\ UNCHANGED <<raised, psd_overlap_threshold, combine_psdlabel, gt_target, old_pred,
                   keep, psd_target, store_psd_target, libVars, normVars, pathVars,
                   lossVars, histVars, decVars, vq_number, matcher_slots,
                   fake_query_labels, scope>>

\* SetCriterion.forward, losses 'masks' and 'points' of the scope: get_loss is
\* given complete_psd_targets and indices as they are after the labels loss
MasksPointsLosses ==
    /\ pc = "modified"
    /\ loss_inputs' =
           [l \in Losses |->
               IF l = "labels" THEN loss_inputs[l]
               ELSE [given |-> TRUE, indices |-> indices, targets |-> complete_psd_target]]
    /\ pc' = "losses"
    /\ UNCHANGED <<raised, psdVars, libVars, normVars, pathVars, lossVars, histVars,
                   decVars, vq_number, matcher_slots, fake_query_labels, indices,
                   new_indices, new_targets, scope>>

NextCrit == RemoveFakeQueryAndMatch \/ ModifyIndicesTargets \/ MasksPointsLosses

SpecCrit == InitCrit /\ [][NextCrit]_vars

----------------------------------------------------------------------------
(* The normalizer of SetCriterion.forward *)

MaxBatch == 2

\* sum(len(t["labels"]) for t in complete_psd_targets)
RECURSIVE SumSeq(_)
SumSeq(s) == IF s = <<>> THEN 0 ELSE Head(s) + SumSeq(Tail(s))

\* torch.distributed.all_reduce: every rank receives the sum over the ranks
RECURSIVE AllReduceSum(_, _)
AllReduceSum(local, ranks) ==
    IF ranks = {} THEN 0
    ELSE LET r == CHOOSE x \in ranks : TRUE
         IN local[r] + AllReduceSum(local, ranks \ {r})

\* detectron2.utils.comm.get_world_size as SetCriterion.forward calls it
GetWorldSize == IF dist_initialized THEN world_size ELSE 1

\* mutant: the quotient is not clamped
ClampMinOneMissing(q) == q

\* torch.clamp(x, min=1) of the quotient num/den
ClampMinOne(q) == IF q.num < q.den THEN [num |-> 1, den |-> 1] ELSE q

NumMasksOf(local, r) ==
    LET reduced == IF dist_initialized THEN AllReduceSum(local, DOMAIN local)
                                       ELSE local[r]
    IN ClampMinOne([num |-> reduced, den |-> GetWorldSize])

InitNorm ==
    /\ IdlePsd
    /\ IdleCrit
    /\ IdleDec
    /\ IdlePath
    /\ IdleLoss
    /\ IdleHist
    /\ pc = "targets"
    /\ raised = FALSE
    /\ task = 1
    /\ iter = 0
    /\ world_size \in 1..MaxWorld
    /\ dist_initialized \in BOOLEAN
    /\ ~dist_initialized => world_size = 1
    /\ collect = <<>>
    /\ matched = <<>>
    /\ files = <<>>
    /\ batch_targets \in [Ranks -> UNION {[1..b -> 0..MaxTgt] : b \in 1..MaxBatch}]
    /\ num_masks = [r \in Ranks |-> [num |-> 0, den |-> 1]]

\* SetCriterion.forward on every rank, up to the clamp of num_masks
ComputeNumMasks ==
    /\ pc = "targets"
    /\ LET local == [r \in Ranks |-> SumSeq(batch_targets[r])]
       IN num_masks' = [r \in Ranks |-> NumMasksOf(local, r)]
    /\ pc' = "normalized"
    /\ UNCHANGED <<raised, psdVars, libVars, critVars, pathVars, lossVars, histVars, decVars, batch_targets>>

NextNorm == ComputeNumMasks

SpecNorm == InitNorm /\ [][NextNorm]_vars

----------------------------------------------------------------------------
(* The replay sampler and the query set of the decoder *)

\* length of MaskFormer.psd_num, the histogram that collection mode writes
PsdNumLen == 150

\* length of the weights the decoder falls back to
OnesLen == 100

ClsInTasks == {<<2>>, <<1, 1>>, <<2, 1>>}

\* psd_distribution.json, when present: the counts of psd_num
HistFiles ==
    {[c \in 1..PsdNumLen |-> 0], [c \in 1..PsdNumLen |-> IF c = 1 THEN 3 ELSE 0]}

\* int(n_cls_in_tasks.sum()) - int(n_cls_in_tasks[-1])
NumOldClasses(ncls) == SumSeq(ncls) - ncls[Len(ncls)]

\* torch.ones(100)
Ones == [i \in 1..OnesLen |-> [num |-> 1, den |-> 1]]

\* the decoder's __init__: psd_dis[i] is the base num/den of the weight
\* pow(psd.sum() / psd[i], distribution_alpha), psd = histogram[:old] + 1
PsdDis(ncls, cqm, vq, hist_exists, hist) ==
    IF Len(ncls) > 1 /\ ~cqm /\ vq > 0
    THEN IF hist_exists
         THEN LET psd == [i \in 1..NumOldClasses(ncls) |-> hist[i] + 1]
              IN [i \in DOMAIN psd |-> [num |-> SumSeq(psd), den |-> psd[i]]]
         ELSE Ones
    ELSE Ones

\* torch.ones_like(self.psd_dis) unless weighted_sample
SampleWeight == IF ~weighted_sample THEN [i \in DOMAIN psd_dis |-> [num |-> 1, den |-> 1]]
                ELSE psd_dis

\* the labels torch.multinomial can return: positions of positive weight, from 0
MultinomialSupport(w) == {i - 1 : i \in {j \in DOMAIN w : w[j].num > 0}}

\* random.sample(query_lib[label], 1) raises: no such key in a plain dict, or
\* an empty deque (the one a defaultdict makes for a missing key included)
SampleRaises(lib, label) ==
    IF label \in DOMAIN lib.bufs THEN Len(lib.bufs[label].items) = 0 ELSE TRUE

\* query_lib after query_lib[label] was evaluated
AfterLookup(lib, label) ==
    IF label \notin DOMAIN lib.bufs /\ lib.default_factory
    THEN [lib EXCEPT !.bufs = [c \in DOMAIN lib.bufs \cup {label} |->
                                  IF c = label THEN NewDeque(LibSize) ELSE lib.bufs[c]]]
    ELSE lib

RECURSIVE AfterLookups(_, _)
\* query_lib after the loop over the drawn labels, up to the first failure
AfterLookups(lib, labels) ==
    IF labels = <<>> THEN lib
    ELSE IF SampleRaises(lib, Head(labels)) THEN AfterLookup(lib, Head(labels))
         ELSE AfterLookups(lib, Tail(labels))

\* bool(query_lib) of a dict
Truthy(lib) == DOMAIN lib.bufs # {}

\* the libraries MaskFormer.__init__ can hold for the old classes
LibrariesFor(ncls, cqm) ==
    IF Len(ncls) > 1 /\ ~cqm
    THEN {EmptyDict} \cup
         {Unpickle({<<c, TRUE, LibSize, <<Feature(1, 0)>>>> : c \in K}) :
              K \in SUBSET (0..(NumOldClasses(ncls) - 1))}
    ELSE {EmptyDict}

InitDec ==
    /\ IdlePsd
    /\ IdleNorm
    /\ IdlePath
    /\ IdleLoss
    /\ IdleHist
    /\ matcher_slots = 0
    /\ scope = 0
    /\ loss_inputs = <<>>
    /\ pc = "built"
    /\ raised = FALSE
    /\ iter = 0
    /\ world_size = 1
    /\ dist_initialized = FALSE
    /\ matched = <<>>
    /\ files = <<>>
    /\ indices = NoMatch
    /\ new_indices = NoMatch
    /\ new_targets = EmptyTarget
    /\ fake_query_labels = NoLabels
    /\ n_cls_in_tasks \in ClsInTasks
    /\ task = Len(n_cls_in_tasks)
    /\ training \in BOOLEAN
    /\ collect_query_mode \in BOOLEAN
    /\ weighted_sample \in BOOLEAN
    /\ vq_number \in 0..MaxVq
    /\ num_queries \in NumQueriesChoices
    /\ \E lib \in LibrariesFor(n_cls_in_tasks, collect_query_mode) :
           collect = [r \in {0} |-> lib]
    /\ \E hist_exists \in BOOLEAN : \E hist \in HistFiles :
           psd_dis = PsdDis(n_cls_in_tasks, collect_query_mode, vq_number,
                            hist_exists, hist)
    /\ tgt_slots = 0
    /\ med_feats = <<>>
    /\ out_slots = <<>>

\* the output scopes of the decoder and their prediction tensors
Scopes == {"primary", "aux_outputs", "interm_outputs"}

\* query slots of every prediction tensor the decoder returns; lib_truthy is
\* bool(query_lib) of the library handed to the pass, False for None
OutputSlots(nq, vq, tsk, train, lib_truthy) ==
    LET \* rows of tgt_undetach, and of refpoint_embed, padded under the same test
        tgt == nq + (IF train /\ tsk > 1 /\ lib_truthy /\ vq > 0 THEN vq ELSE 0)
    IN [s \in Scopes |->
          IF s = "interm_outputs"
          THEN [pred_logits |-> tgt,
                pred_masks |-> tgt,
                pred_boxes |-> IF tsk > 1 /\ vq > 0 THEN nq + vq ELSE nq]
          ELSE \* forward_decoder: every layer's heads and box deltas read the
               \* same output rows
               [pred_logits |-> tgt, pred_masks |-> tgt, pred_boxes |-> tgt]]

\* tgt_undetach before the concatenation: the features of the selected proposals
RealQueries == [i \in 1..num_queries |-> Feature(task, 0)]

\* MaskFormer.forward hands no library to the decoder: no label is drawn and
\* the query set stays as it is (inference returns no labels at all)
ForwardWithoutLibrary ==
    /\ pc = "built"
    /\ ~(training /\ task > 1 /\ ~collect_query_mode /\ vq_number > 0)
    /\ tgt_slots' = num_queries
    /\ med_feats' = RealQueries
    /\ out_slots' = OutputSlots(num_queries, vq_number, task, training, FALSE)
    /\ fake_query_labels' = NoLabels
    /\ pc' = "forwarded"
    /\ UNCHANGED <<raised, psdVars, libVars, normVars, pathVars, lossVars, histVars, vq_number, matcher_slots, scope, loss_inputs, indices, new_indices,
                   new_targets, n_cls_in_tasks, training, collect_query_mode,
                   weighted_sample, psd_dis, num_queries>>

\* MaskFormer.forward hands self.collect to the decoder, which draws vq_number
\* labels for the image, picks a feature for each and appends them
ForwardWithLibrary ==
    /\ pc = "built"
    /\ training /\ task > 1 /\ ~collect_query_mode /\ vq_number > 0
    /\ \E fake_targets \in [1..vq_number -> MultinomialSupport(SampleWeight)] :
           IF \E i \in DOMAIN fake_targets : SampleRaises(collect[0], fake_targets[i])
           THEN /\ raised' = TRUE
                /\ pc' = "raised"
                /\ collect' = [collect EXCEPT ![0] = AfterLookups(@, fake_targets)]
                /\ fake_query_labels' = [given |-> TRUE, labels |-> fake_targets]
                /\ UNCHANGED <<tgt_slots, med_feats, out_slots>>
           ELSE /\ \E fake_query \in [1..vq_number -> Range(RealQueries) \cup
                                           UNION {Range(collect[0].bufs[c].items) :
                                                     c \in DOMAIN collect[0].bufs}] :
                      /\ \A i \in 1..vq_number :
                             fake_query[i] \in
                                 Range(collect[0].bufs[fake_targets[i]].items)
                      /\ med_feats' =
                             IF training /\ task > 1 /\ Truthy(collect[0])
                                    /\ vq_number > 0
                             THEN RealQueries \o fake_query ELSE RealQueries
                /\ tgt_slots' = num_queries +
                        (IF training /\ task > 1 /\ Truthy(collect[0]) /\ vq_number > 0
                         THEN vq_number ELSE 0)
                /\ out_slots' = OutputSlots(num_queries, vq_number, task, training,
                                            Truthy(collect[0]))
                /\ fake_query_labels' = [given |-> TRUE, labels |-> fake_targets]
                /\ pc' = "forwarded"
                /\ UNCHANGED <<raised, collect>>
    /\ UNCHANGED <<psdVars, normVars, pathVars, lossVars, histVars, task, iter, world_size, dist_initialized, matched,
                   files, vq_number, matcher_slots, scope, loss_inputs, indices, new_indices, new_targets, n_cls_in_tasks,
                   training, collect_query_mode, weighted_sample, psd_dis, num_queries>>

\* what the matcher may return for the prediction tensors it is given:
\* distinct slots paired with distinct target indices, all targets or fewer
StoreMatchesFor(slots, n) ==
    {m \in [src : LabelSeqs(0..(slots - 1), n), tgt : LabelSeqs(0..(n - 1), n)] :
        /\ Len(m.src) = Len(m.tgt)
        /\ \A i, j \in DOMAIN m.src : i # j => m.src[i] # m.src[j] /\ m.tgt[i] # m.tgt[j]}

RECURSIVE StorePairs(_, _, _, _, _)
\* for q, l in zip(*indice): self.collect[labels[l]].append(med_feats[index][q])
StorePairs(dict, m, labels, feats, ws) ==
    IF m.src = <<>> THEN dict
    ELSE StorePairs(StoreFeature(dict, labels[Head(m.tgt) + 1],
                                 feats[Head(m.src) + 1], ws),
                    [src |-> Tail(m.src), tgt |-> Tail(m.tgt)], labels, feats, ws)

\* MaskFormer.forward, "store fake query": the matcher runs on the 'pred'
\* outputs of the pass and the feature of every matched slot is cached under
\* the class of its target
StoreFakeQuery ==
    /\ pc = "forwarded"
    /\ training
    /\ \E labels \in LabelSeqs(0..(SumSeq(n_cls_in_tasks) - 1), MaxTgt) :
       \E m \in StoreMatchesFor(Len(med_feats), Len(labels)) :
           /\ complete_psd_target' = TargetsOf(labels)
           /\ indices' = m
           /\ collect' = [collect EXCEPT ![0] =
                              StorePairs(@, m, labels, med_feats, ForwardWorldSize)]
    /\ pc' = "stored"
    /\ UNCHANGED <<raised, normVars, pathVars, lossVars, histVars, decVars, psd_overlap_threshold, combine_psdlabel,
                   gt_target, old_pred, keep, psd_target, store_psd_target, task, iter,
                   world_size,
                   dist_initialized, matched, files, vq_number, matcher_slots, scope, loss_inputs, fake_query_labels,
                   new_indices, new_targets>>

NextDec == ForwardWithoutLibrary \/ ForwardWithLibrary \/ StoreFakeQuery

SpecDec == InitDec /\ [][NextDec]_vars

----------------------------------------------------------------------------
(* The directory of the previous task, derived from the output path *)

MaxPathTask == 20

DigitChars == <<"0", "1", "2", "3", "4", "5", "6", "7", "8", "9">>

RECURSIVE Str(_)
\* str(n), f"{n}" of a natural number: its decimal digits
Str(n) ==
    IF n < 10 THEN <<DigitChars[n + 1]>>
    ELSE Str(n \div 10) \o <<DigitChars[(n % 10) + 1]>>

\* s[:-k] for k > 0
DropLast(s, k) == IF Len(s) <= k THEN <<>> ELSE SubSeq(s, 1, Len(s) - k)

\* MaskFormer.__init__: query_root
QueryRoot(dir, t) ==
    IF t < 10 THEN DropLast(dir, 1) \o Str(t - 1) ELSE DropLast(dir, 2) \o Str(t - 1)

\* Trainer.__init__: cfg_old.OUTPUT_DIR, with cfg_old.CONT.TASK = TASK - 1
OldOutputDir(dir, t) ==
    LET old_task == t - 1
    IN IF t < 10 THEN DropLast(dir, 1) \o Str(old_task)
       ELSE DropLast(dir, 2) \o Str(old_task)

\* Trainer.after_train, cumulative histogram: old_root
HistOldRoot(dir, t) == DropLast(dir, 1) \o Str(t - 1)

PathPrefixes == {<<"s", "t", "e", "p">>, <<"o", "/", "t">>}

\* the sites and the tasks in which each derives the directory
PathSites(t) ==
    {"model", "old_model"} \cup (IF t > 2 THEN {"histogram"} ELSE {})

InitPath ==
    /\ IdlePsd
    /\ IdleCrit
    /\ IdleNorm
    /\ IdleDec
    /\ IdleLoss
    /\ IdleHist
    /\ pc = "config"
    /\ raised = FALSE
    /\ iter = 0
    /\ world_size = 1
    /\ dist_initialized = FALSE
    /\ collect = <<>>
    /\ matched = <<>>
    /\ files = <<>>
    /\ task \in 2..MaxPathTask
    /\ \E prefix \in PathPrefixes : output_dir = prefix \o Str(task)
    /\ path_site \in PathSites(task)
    /\ old_root = <<>>

DerivePreviousDir ==
    /\ pc = "config"
    /\ old_root' = CASE path_site = "model" -> QueryRoot(output_dir, task)
                     [] path_site = "old_model" -> OldOutputDir(output_dir, task)
                     [] path_site = "histogram" -> HistOldRoot(output_dir, task)
    /\ pc' = "derived"
    /\ UNCHANGED <<raised, psdVars, libVars, critVars, normVars, decVars, lossVars,
                   histVars, output_dir, path_site>>

NextPath == DerivePreviousDir

SpecPath == InitPath /\ [][NextPath]_vars

----------------------------------------------------------------------------
(* SetCriterion.loss_labels: the one-hot classification target *)

NumClassesChoices == {2, 3}

\* src_logits.shape[2]: the class head and the criterion are built with the
\* same class count
LogitClasses == num_classes

\* labels a target may carry, the declared classes and their neighbours
LossLabels(nc) == (0 - 1)..(nc + 1)

\* target_classes: num_classes everywhere, the matched labels at the matched slots
TargetClasses(labels, match, slots) ==
    [q \in 0..(slots - 1) |->
        IF \E i \in DOMAIN match.src : match.src[i] = q
        THEN LET i == CHOOSE i \in DOMAIN match.src : match.src[i] = q
             IN labels[match.tgt[i] + 1]
        ELSE num_classes]

\* target_classes_onehot.scatter_(2, target_classes.unsqueeze(-1), 1) on a
\* tensor of src_logits.shape[2] + 1 classes: an index outside it is an error
ScatterRaises(target_classes) ==
    \E q \in DOMAIN target_classes :
        target_classes[q] < 0 \/ target_classes[q] > LogitClasses

\* target_classes_onehot[:, :, :-1]
OneHot(target_classes) ==
    [q \in DOMAIN target_classes |->
        IF target_classes[q] < LogitClasses THEN {target_classes[q]} ELSE {}]

InitLoss ==
    /\ IdlePsd
    /\ IdleLib
    /\ IdleNorm
    /\ IdlePath
    /\ IdleHist
    /\ pc = "loss_input"
    /\ raised = FALSE
    /\ vq_number = 0
    /\ fake_query_labels = NoLabels
    /\ indices = NoMatch
    /\ matcher_slots = 0
    /\ scope = 0
    /\ loss_inputs = <<>>
    /\ n_cls_in_tasks = <<>>
    /\ training = TRUE
    /\ collect_query_mode = FALSE
    /\ weighted_sample = FALSE
    /\ psd_dis = <<>>
    /\ num_queries \in NumQueriesChoices
    /\ tgt_slots = num_queries
    /\ med_feats = <<>>
    /\ out_slots = <<>>
    /\ num_classes \in NumClassesChoices
    /\ \E labels \in LabelSeqs(LossLabels(num_classes), MaxTgt) :
           /\ new_targets = TargetsOf(labels)
           /\ new_indices \in StoreMatchesFor(tgt_slots, Len(labels))
    /\ target_classes_onehot = <<>>

LossLabelsStep ==
    /\ pc = "loss_input"
    /\ LET target_classes == TargetClasses(new_targets.labels, new_indices, tgt_slots)
       IN IF ScatterRaises(target_classes)
          THEN /\ raised' = TRUE
               /\ pc' = "raised"
               /\ UNCHANGED target_classes_onehot
          ELSE /\ target_classes_onehot' = OneHot(target_classes)
               /\ pc' = "loss_done"
               /\ UNCHANGED raised
    /\ UNCHANGED <<psdVars, libVars, critVars, normVars, decVars, pathVars, histVars,
                   num_classes>>

NextLoss == LossLabelsStep

SpecLoss == InitLoss /\ [][NextLoss]_vars

----------------------------------------------------------------------------
(* Collection mode: the pseudo-label histogram and its file *)

\* for i in t['labels']: self.psd_num[i] += 1 (the entries of the classes that
\* no pseudo-label names stay zero and are left out)
CountLabels(num, labels) ==
    [c \in DOMAIN num |->
        num[c] + Cardinality({i \in DOMAIN labels : labels[i] = c})]

\* create_ddp_model wraps the model when there is more than one worker
Wrapped == world_size > 1

InitHist ==
    /\ IdlePsd
    /\ IdleCrit
    /\ IdleNorm
    /\ IdlePath
    /\ IdleLoss
    /\ collect_query_mode \in BOOLEAN
    /\ pc = IF collect_query_mode THEN "collect" ELSE "train"
    /\ raised = FALSE
    /\ task = 2
    /\ iter = 0
    /\ world_size \in 1..MaxWorld
    /\ dist_initialized \in BOOLEAN
    /\ ~dist_initialized => world_size = 1
    /\ collect = [r \in Ranks |-> EmptyDict]
    /\ matched = [r \in Ranks |-> <<>>]
    /\ files = [t \in 1..MaxTask |-> NoFile]
    /\ n_cls_in_tasks = <<>>
    /\ training = TRUE
    /\ weighted_sample = FALSE
    /\ psd_dis = <<>>
    /\ num_queries = 0
    /\ tgt_slots = 0
    /\ med_feats = <<>>
    /\ out_slots = <<>>
    /\ psd_num = [r \in Ranks |-> [c \in Classes |-> 0]]
    /\ psd_file = NoPsdFile

\* MaskFormer.forward in collection mode, on every rank: the labels of the
\* image's pseudo-targets are counted
CollectStep ==
    /\ pc = "collect"
    /\ iter < MaxIter
    /\ \E psd_labels \in [Ranks -> LabelSeqs(Classes, 1)] :
           psd_num' = [r \in Ranks |-> CountLabels(psd_num[r], psd_labels[r])]
    /\ iter' = iter + 1
    /\ UNCHANGED <<pc, raised, psdVars, critVars, normVars, decVars, pathVars, lossVars,
                   task, world_size, dist_initialized, collect, matched, files,
                   psd_file>>

\* Trainer.after_train in collection mode, reached with iter == MAX_ITER on
\* every rank: each one dumps its own self.model.psd_num to the same file and
\* exits; what the attribute access yields on a wrapped model is left open
CollectAfterTrain ==
    /\ pc = "collect"
    /\ iter = MaxIter
    /\ \E resolves \in (IF Wrapped THEN BOOLEAN ELSE {TRUE}) :
           IF resolves
           THEN /\ \E last \in Ranks :
                       psd_file' = [exists |-> TRUE, data |-> psd_num[last],
                                    writers |-> Ranks]
                /\ pc' = "collected"
                /\ UNCHANGED raised
           ELSE /\ raised' = TRUE
                /\ pc' = "raised"
                /\ UNCHANGED psd_file
    /\ UNCHANGED <<psdVars, libVars, critVars, normVars, decVars, pathVars, lossVars,
                   psd_num>>

\* a run of one task in either mode: collection mode counts and dumps the
\* histogram, normal mode trains and saves the Query Library
NextHist == CollectStep \/ CollectAfterTrain \/ TrainStep \/ AfterTrain \/ StopEarly

SpecHist == InitHist /\ [][NextHist]_vars

----------------------------------------------------------------------------
(* Claims about the Pseudo-Label Generator and the complete target *)

PsdDone == pc \in {"psd", "complete", "raised"}

GtUnion == {p \in Pixels : \E i \in DOMAIN gt_target.masks : p \in gt_target.masks[i]}

\* the declarative owner of a pixel: maximal score * probability, lowest index on ties
Owns(k, p) ==
    LET o == old_pred.preds
    IN /\ \A j \in DOMAIN o : o[j].score * o[j].mask[p] <= o[k].score * o[k].mask[p]
       /\ \A j \in 1..(k - 1) : o[j].score * o[j].mask[p] # o[k].score * o[k].mask[p]

ClaimOldArea(k) == Cardinality({p \in Pixels : old_pred.preds[k].mask[p] >= 2})

ClaimNewArea(k) ==
    Cardinality({p \in Pixels : /\ old_pred.preds[k].mask[p] >= 2
                                /\ Owns(k, p)
                                /\ p \notin GtUnion})

\* C1: no mask emitted by generate_psd_targets, in the per-prediction and in the
\* combine_psdlabel mode, has a pixel set in the union of the image's
\* ground-truth masks.
C1_NoGtOverlap ==
    PsdDone => \A i \in DOMAIN psd_target.masks : psd_target.masks[i] \cap GtUnion = {}

\* a pseudo-label was emitted for a prediction whose binarized mask reached into
\* the ground-truth region
C1_Witness ==
    /\ pc = "psd"
    /\ Len(psd_target.masks) > 0
    /\ \E k \in DOMAIN keep : \E p \in GtUnion :
           keep[k] /\ old_pred.preds[k].mask[p] >= 2 /\ Owns(k, p)

\* C2: on the default path prediction k is kept iff new_area_k > 0 and
\* new_area_k > old_area_k * psd_overlap_threshold; every prediction takes part,
\* whatever its score.
C2_KeepIff ==
    (PsdDone /\ old_pred.given) =>
        /\ DOMAIN keep = DOMAIN old_pred.preds
        /\ \A k \in DOMAIN keep :
               keep[k] <=> /\ ClaimNewArea(k) > 0
                           /\ 10 * ClaimNewArea(k) > ClaimOldArea(k) * psd_overlap_threshold

\* a low-score prediction is kept while another one with pixels left is dropped
\* by the threshold
C2_Witness ==
    /\ pc = "psd"
    /\ \E k \in DOMAIN keep : keep[k] /\ old_pred.preds[k].score < 4
    /\ \E j \in DOMAIN keep : ~keep[j] /\ ClaimNewArea(j) > 0

\* C3: a prediction whose binarized mask is empty is never kept, for every
\* threshold and every ground truth.
C3_ZeroAreaNeverKept ==
    (PsdDone /\ old_pred.given) =>
        \A k \in DOMAIN keep : ClaimOldArea(k) = 0 => ~keep[k]

\* a prediction of zero area that owns a pixel, under threshold 0
C3_Witness ==
    /\ pc = "psd"
    /\ psd_overlap_threshold = 0
    /\ \E k \in DOMAIN keep : ClaimOldArea(k) = 0 /\ \E p \in Pixels : Owns(k, p)

ClaimMemoryImage ==
    \E i \in DOMAIN gt_target.labels : gt_target.labels[i] \notin current_catagory_ids

\* C8: for a memory image the complete target is the real Target, whatever the
\* generator produced; for every other image it is the pseudo-target entries
\* followed by the real Target entries.
C8_CompleteTarget ==
    (pc = "complete" /\ old_pred.given) =>
        IF ClaimMemoryImage
        THEN complete_psd_target = gt_target
        ELSE /\ complete_psd_target.labels = psd_target.labels \o gt_target.labels
             /\ complete_psd_target.masks = psd_target.masks \o gt_target.masks
             /\ complete_psd_target.boxes = psd_target.boxes \o gt_target.boxes

\* a memory image for which the generator produced a pseudo-label
C8_Witness ==
    /\ pc = "complete"
    /\ ClaimMemoryImage
    /\ Len(psd_target.labels) > 0

ClaimNoSurvivor == old_pred.given /\ \A k \in DOMAIN keep : ~keep[k]

\* C9: with no old prediction, or none surviving the keep filter, the
\* pseudo-target has zero labels, masks and boxes, nothing is raised, in both
\* modes, and the complete target has the entries of the real Target.
C9_EmptyPseudoTarget ==
    (PsdDone /\ ClaimNoSurvivor) =>
        /\ ~raised
        /\ pc # "raised"
        /\ Len(psd_target.labels) = 0
        /\ Len(psd_target.masks) = 0
        /\ Len(psd_target.boxes) = 0
        /\ pc = "complete" => complete_psd_target = gt_target

\* combine mode, predictions were given and none survived
C9_Witness ==
    /\ pc = "complete"
    /\ combine_psdlabel
    /\ Len(old_pred.preds) > 0
    /\ ClaimNoSurvivor

----------------------------------------------------------------------------
(* Claims about the Query Library *)

ClaimWorkerBuffers ==
    UNION {{collect[r].bufs[c].items : c \in DOMAIN collect[r].bufs} : r \in DOMAIN collect}

ClaimFileBuffers == UNION {{e[4] : e \in files[t].data} : t \in DOMAIN files}

C4_Bound ==
    /\ \A b \in ClaimWorkerBuffers \cup ClaimFileBuffers : Len(b) <= LibSize
    /\ task = 1 => \A b \in ClaimWorkerBuffers : Len(b) <= LibSize \div world_size

\* the last n items of a sequence
ClaimLast(s, n) == IF Len(s) <= n THEN s ELSE SubSeq(s, Len(s) - n + 1, Len(s))

\* a training step appends at the tail and drops from the head only
C4_EvictOldest ==
    (pc = "train" /\ iter' = iter + 1) =>
        \A r \in DOMAIN collect : \A c \in Classes :
            IF \E i \in DOMAIN matched'[r] : matched'[r][i] = c
            THEN LET before == IF c \in DOMAIN collect[r].bufs
                               THEN collect[r].bufs[c].items ELSE <<>>
                     cap == IF c \in DOMAIN collect[r].bufs
                            THEN collect[r].bufs[c].maxlen
                            ELSE LibSize \div world_size
                 IN /\ c \in DOMAIN collect'[r].bufs
                    /\ collect'[r].bufs[c].items =
                           ClaimLast(before \o <<[task |-> task, rank |-> r]>>, cap)
            ELSE /\ (c \in DOMAIN collect'[r].bufs) = (c \in DOMAIN collect[r].bufs)
                 /\ c \in DOMAIN collect[r].bufs =>
                        collect'[r].bufs[c] = collect[r].bufs[c]

ClaimJustLoaded == pc = "train" /\ iter = 0 /\ task > 1

----------------------------------------------------------------------------
(* Claims about the Matching Adapter and the normalizer *)

\* C6: with fake query labels given, the prediction-index and the target-index
\* sequence of the image each grow by exactly vq_number, and every appended
\* target index is greater than all target indices of the match (the appended
\* ones start at 0 when the match is empty).
C6_AdapterExtends ==
    (pc = "modified" /\ fake_query_labels.given) =>
        /\ Len(new_indices.src) = Len(indices.src) + vq_number
        /\ Len(new_indices.tgt) = Len(indices.tgt) + vq_number
        /\ \A a \in (Len(indices.tgt) + 1)..Len(new_indices.tgt) :
               \A i \in DOMAIN indices.tgt : new_indices.tgt[a] > indices.tgt[i]
        /\ Len(indices.tgt) = 0 =>
               \A a \in DOMAIN new_indices.tgt : new_indices.tgt[a] = a - 1

\* two synthetic queries appended to a match that covers one of two targets
C6_Witness ==
    /\ pc = "modified"
    /\ fake_query_labels.given
    /\ vq_number = 2
    /\ Len(indices.tgt) = 1
    /\ Len(complete_psd_target.labels) = 2

RECURSIVE ClaimTotal(_)
ClaimTotal(ranks) ==
    IF ranks = {} THEN 0
    ELSE LET r == CHOOSE x \in ranks : TRUE
         IN SumSeq(batch_targets[r]) + ClaimTotal(ranks \ {r})

\* C7: num_masks = max(1, (sum over the workers of their complete-target
\* entries) / world_size); it is >= 1 for every batch and equal on every worker.
C7_Normalizer ==
    pc = "normalized" =>
        \A r \in DOMAIN num_masks :
            /\ num_masks[r].den > 0
            /\ num_masks[r].num >= num_masks[r].den
            /\ num_masks[r].num * world_size =
                   num_masks[r].den * (IF ClaimTotal(DOMAIN batch_targets) > world_size
                                       THEN ClaimTotal(DOMAIN batch_targets)
                                       ELSE world_size)
            /\ \A q \in DOMAIN num_masks : num_masks[q] = num_masks[r]

\* two workers, no target on either
C7_Witness ==
    /\ pc = "normalized"
    /\ world_size = 2
    /\ ClaimTotal(DOMAIN batch_targets) = 0

----------------------------------------------------------------------------
(* Claims about the replay sampler and the query set *)

ClaimOldClasses == 0..(NumOldClasses(n_cls_in_tasks) - 1)

ClaimLibraryComplete ==
    \A c \in ClaimOldClasses :
        c \in DOMAIN collect[0].bufs /\ Len(collect[0].bufs[c].items) > 0

\* C10: a training pass with task > 1, vq_number > 0, not collection mode and a
\* library holding an entry for every old class gives the decoder
\* num_queries + vq_number query slots per image; an inference pass, task 1,
\* vq_number = 0 and collection mode append nothing and return no labels.
C10_QuerySlots ==
    pc \in {"forwarded", "raised"} =>
        /\ (training /\ task > 1 /\ vq_number > 0 /\ ~collect_query_mode
                /\ ClaimLibraryComplete) =>
               (pc = "forwarded" /\ tgt_slots = num_queries + vq_number)
        /\ (~training \/ task = 1 \/ vq_number = 0 \/ collect_query_mode) =>
               (pc = "forwarded" /\ tgt_slots = num_queries
                    /\ ~fake_query_labels.given)

----------------------------------------------------------------------------
(* Further claims about the targets *)

ClaimSameShape(t) == Len(t.labels) = Len(t.masks) /\ Len(t.masks) = Len(t.boxes)

\* C11: the Target of prepare_targets and the pseudo-target of
\* generate_psd_targets (per prediction or fused per class, survivors or none)
\* have as many labels as masks as boxes.
C11_SameShape ==
    /\ pc \in {"input", "psd", "complete", "raised"} => ClaimSameShape(gt_target)
    /\ PsdDone => ClaimSameShape(psd_target)

\* two survivors of one class fused into one entry
C11_Witness ==
    /\ pc = "psd"
    /\ combine_psdlabel
    /\ Len(SelectSeq(keep, LAMBDA b : b)) = 2
    /\ Len(psd_target.labels) = 1

----------------------------------------------------------------------------
(* Further claims about the replay sampler and the Query Library *)

\* MaskFormer.__init__ found no fake_query.pkl: self.collect stayed the plain {}
ClaimCacheMissing == task > 1 /\ ~collect_query_mode /\ ~collect[0].default_factory

\* C12: with task > 1, vq_number > 0 and the previous task's cache file missing,
\* a training step runs to completion without synthetic queries and without
\* an error.
C12_MissingCacheHarmless ==
    (pc \in {"forwarded", "raised"} /\ training /\ vq_number > 0 /\ ClaimCacheMissing) =>
        /\ pc = "forwarded"
        /\ ~raised
        /\ tgt_slots = num_queries
        /\ ~fake_query_labels.given

\* the pass reads its synthetic queries from self.collect
ClaimSamplerReads == training /\ task > 1 /\ vq_number > 0 /\ ~collect_query_mode

\* C13: no training step modifies the Query Library the replay sampler reads:
\* the feature vectors of every old class stay those loaded at construction.
C13_LibraryReadOnly ==
    [][ClaimSamplerReads =>
          \A c \in ClaimOldClasses \cap DOMAIN collect[0].bufs :
              /\ c \in DOMAIN collect'[0].bufs
              /\ collect'[0].bufs[c].items = collect[0].bufs[c].items]_vars

\* C20: no feature vector that MaskFormer.forward appends to the per-class
\* cache comes from a synthetic query slot (index >= num_queries).
C20_NoSyntheticStored ==
    pc = "stored" => \A i \in DOMAIN indices.src : indices.src[i] < num_queries

RECURSIVE ClaimConcat(_, _)
\* the buffers of class c of ranks r, r + 1, ... one after the other
ClaimConcat(c, r) ==
    IF r \notin DOMAIN collect THEN <<>>
    ELSE (IF c \in DOMAIN collect[r].bufs THEN collect[r].bufs[c].items ELSE <<>>)
             \o ClaimConcat(c, r + 1)

ClaimMerged == pc = "done" /\ iter = MaxIter /\ dist_initialized

----------------------------------------------------------------------------
(* Claims about the derived directory *)

\* C15: for every task t >= 2, of one or two digits, each site derives from the
\* output path with suffix t the same path with the suffix replaced by t - 1.
C15_PreviousDir ==
    pc = "derived" =>
        old_root = DropLast(output_dir, Len(Str(task))) \o Str(task - 1)

----------------------------------------------------------------------------
(* Claims about loss_labels *)

ClaimLabelOutOfRange ==
    \E i \in DOMAIN new_indices.tgt :
        new_targets.labels[new_indices.tgt[i] + 1] \notin 0..(num_classes - 1)

\* C16: when a matched target carries a label outside [0, num_classes),
\* loss_labels ends with an error and returns no loss.
C16_FailFast ==
    (pc \in {"loss_done", "raised"} /\ ClaimLabelOutOfRange) => (pc = "raised" /\ raised)

----------------------------------------------------------------------------
(* Claims about the histogram of collection mode *)

RECURSIVE ClaimCountSum(_, _)
ClaimCountSum(c, ranks) ==
    IF ranks = {} THEN 0
    ELSE LET r == CHOOSE x \in ranks : TRUE
         IN psd_num[r][c] + ClaimCountSum(c, ranks \ {r})

\* C17: at the end of a collection run with W >= 1 workers the file holds, for
\* each class, the sum of the workers' counts, written by one worker only.
C17_HistogramSum ==
    (pc \in {"collected", "raised"} /\ collect_query_mode /\ iter = MaxIter) =>
        /\ psd_file.exists
        /\ Cardinality(psd_file.writers) = 1
        /\ \A c \in Classes : psd_file.data[c] = ClaimCountSum(c, DOMAIN psd_num)

----------------------------------------------------------------------------
(* Further claims about the Matching Adapter *)

\* C18: in the adapter's output the label at the j-th appended target index
\* is the j-th synthetic label of the image, for any match, also one that
\* covers fewer targets than the image has, or none.
C18_SyntheticLabelAtIndex ==
    (pc = "modified" /\ fake_query_labels.given) =>
        \A j \in 1..vq_number :
            LET a == new_indices.tgt[Len(indices.tgt) + j]
            IN /\ a + 1 \in DOMAIN new_targets.labels
               /\ new_targets.labels[a + 1] = fake_query_labels.labels[j]

\* C19: for any num_queries and vq_number the matcher is given exactly the
\* num_queries real slots, and the appended prediction indices are
\* num_queries .. num_queries + vq_number - 1.
C19_StripAndAppend ==
    /\ pc \in {"matched", "modified"} => matcher_slots = num_queries
    /\ (pc = "modified" /\ fake_query_labels.given) =>
           \A j \in 1..vq_number :
               new_indices.src[Len(indices.src) + j] = num_queries + j - 1

----------------------------------------------------------------------------
(* Further claims about the pseudo-label generator *)

\* the pixels prediction k contributes: binarized, owned, outside the ground truth
ClaimRegion(k) ==
    {p \in Pixels : /\ old_pred.preds[k].mask[p] >= 2
                    /\ Owns(k, p)
                    /\ p \notin GtUnion}

\* C22: every pixel is owned by at most one old prediction, the one with the
\* largest score * probability there, so the masks emitted for one image are
\* pairwise disjoint, per prediction in the default mode and per class in the
\* combine_psdlabel mode.
C22_DisjointMasks ==
    (PsdDone /\ old_pred.given) =>
        /\ \A p \in Pixels : Cardinality({k \in DOMAIN old_pred.preds : Owns(k, p)}) <= 1
        /\ \A i, j \in DOMAIN psd_target.masks :
               i # j => psd_target.masks[i] \cap psd_target.masks[j] = {}

\* two masks were emitted for predictions whose binarized masks share a pixel
C22_Witness ==
    /\ pc = "psd"
    /\ Len(psd_target.masks) = 2
    /\ \E p \in Pixels : \A k \in DOMAIN old_pred.preds :
           keep[k] /\ old_pred.preds[k].mask[p] >= 2

RECURSIVE ClaimSurvivors(_)
\* the kept predictions from index k on, in input order
ClaimSurvivors(k) ==
    IF k > Len(keep) THEN <<>>
    ELSE (IF keep[k] THEN <<k>> ELSE <<>>) \o ClaimSurvivors(k + 1)

ClaimSurvivorLabels == {old_pred.preds[k].label : k \in {j \in DOMAIN keep : keep[j]}}

\* C23: with combine_psdlabel the generator emits exactly one entry per distinct
\* label among the surviving predictions, whose mask is the union of the
\* surviving regions of that label; without it, one entry per surviving
\* prediction, in the order of the input predictions.
C23_EntriesPerMode ==
    (PsdDone /\ old_pred.given) =>
        IF combine_psdlabel
        THEN /\ Len(psd_target.labels) = Cardinality(ClaimSurvivorLabels)
             /\ Len(psd_target.masks) = Len(psd_target.labels)
             /\ {psd_target.labels[i] : i \in DOMAIN psd_target.labels} = ClaimSurvivorLabels
             /\ \A i \in DOMAIN psd_target.labels :
                    psd_target.masks[i] =
                        UNION {ClaimRegion(k) : k \in {j \in DOMAIN keep :
                            keep[j] /\ old_pred.preds[j].label = psd_target.labels[i]}}
        ELSE LET s == ClaimSurvivors(1)
             IN /\ psd_target.labels = [i \in DOMAIN s |-> old_pred.preds[s[i]].label]
                /\ psd_target.masks = [i \in DOMAIN s |-> ClaimRegion(s[i])]

\* combine mode: two surviving predictions of one label were merged into one entry
C23_Witness ==
    /\ pc = "psd"
    /\ combine_psdlabel
    /\ Len(psd_target.labels) = 1
    /\ Cardinality({k \in DOMAIN keep : keep[k]}) = 2

----------------------------------------------------------------------------
(* Further claims about the replay sampler *)

\* C24: whenever the replay sampler runs it draws vq_number labels for the
\* image, and every drawn label is a class learned before the current task,
\* with the histogram file present or missing, weighted sampling on or off.
C24_DrawnLabelsOld ==
    (pc \in {"forwarded", "raised", "stored"} /\ fake_query_labels.given) =>
        /\ Len(fake_query_labels.labels) = vq_number
        /\ \A i \in DOMAIN fake_query_labels.labels :
               fake_query_labels.labels[i] \in ClaimOldClasses

\* C25: for every label the replay sampler draws, the loaded Query Library has
\* a non-empty buffer, so picking a feature vector never fails, also for a
\* library in which some old class was never matched.
C25_DrawnLabelHasBuffer ==
    (/\ pc \in {"forwarded", "raised"}
     /\ fake_query_labels.given
     /\ collect[0].default_factory
     /\ \A i \in DOMAIN fake_query_labels.labels :
            fake_query_labels.labels[i] \in ClaimOldClasses) =>
        /\ pc = "forwarded"
        /\ ~raised
        /\ \A i \in DOMAIN fake_query_labels.labels :
               /\ fake_query_labels.labels[i] \in DOMAIN collect[0].bufs
               /\ Len(collect[0].bufs[fake_query_labels.labels[i]].items) > 0

----------------------------------------------------------------------------
(* Claims about the targets of the Feature Cache Writer *)

\* C26: the pairs whose features the Feature Cache Writer records are pairs
\* over the complete target the loss uses; for a memory image that is the
\* real Target alone, so nothing is recorded under a pseudo-label class.
C26_StoreTargetIsLossTarget ==
    pc = "store" =>
        /\ store_psd_target = complete_psd_target
        /\ ClaimMemoryImage => store_psd_target.labels = gt_target.labels

----------------------------------------------------------------------------
(* Claims about the decoder's output scopes *)

\* C29: in every output scope the decoder returns, pred_logits, pred_masks and
\* pred_boxes have the same number of query slots, in training and inference,
\* for every task, vq_number, collection mode and library availability.
C29_SameSlotsPerScope ==
    pc \in {"forwarded", "stored"} =>
        \A s \in Scopes :
            /\ out_slots[s].pred_logits = out_slots[s].pred_masks
            /\ out_slots[s].pred_masks = out_slots[s].pred_boxes

----------------------------------------------------------------------------
(* Claims about the two branches of Trainer.after_train *)

\* C27: in collection mode, when the run reaches MAX_ITER each process writes
\* the histogram file and then terminates, and the replay cache file is never
\* written; in normal mode the histogram file is never written.
C27_BranchesExclusive ==
    /\ (collect_query_mode /\ iter = MaxIter /\ pc # "collect") =>
           /\ pc = "collected"
           /\ psd_file.exists
           /\ psd_file.writers = Ranks
    /\ collect_query_mode => \A t \in DOMAIN files : ~files[t].exists
    /\ ~collect_query_mode => ~psd_file.exists

\* C30: a normal-mode run that reaches MAX_ITER in a single process with no
\* process group initialised still saves the worker's Query Library to
\* fake_query.pkl without error; and the file of a task is written only if
\* iter == MAX_ITER, never after a loop that stopped early.
C30_SingleProcessSave ==
    /\ (pc = "done" /\ iter = MaxIter /\ ~dist_initialized) =>
           /\ ~raised
           /\ files[task].exists
           /\ \A c \in DOMAIN collect[0].bufs :
                  \E e \in files[task].data : e[1] = c /\ e[4] = collect[0].bufs[c].items
    /\ (pc = "done" /\ iter < MaxIter) => ~files[task].exists

----------------------------------------------------------------------------
(* Claims about the loss inputs of SetCriterion.forward *)

\* the scope's losses were all computed, with synthetic labels at hand
ClaimScopeDone == pc = "losses" /\ fake_query_labels.given

ClaimAdapterStep == pc = "matched" /\ pc' = "modified"

\* the call leaves the match and the complete target as they were
C28_Frame ==
    ClaimAdapterStep => (indices' = indices /\ complete_psd_target' = complete_psd_target)

\* what the masks and points losses and the matcher of a scope are given
C28_NoSyntheticSeen ==
    /\ Len(complete_psd_target.labels) = Len(complete_psd_target.masks)
    /\ \A i \in DOMAIN indices.tgt : indices.tgt[i] < Len(complete_psd_target.masks)
    /\ \A l \in {"masks", "points"} :
           loss_inputs[l].given =>
               /\ loss_inputs[l].indices = indices
               /\ loss_inputs[l].targets = complete_psd_target

\* C28: _modify_indices_targets_for_fake_query leaves its inputs unchanged: the
\* match and the complete target passed in have the same indices and labels
\* after the call, so the masks and points losses of the scope and the matcher
\* of every later scope are given no synthetic label or index.
C28_InputsUnchanged == [][C28_Frame]_vars /\ [](C28_NoSyntheticSeen)

\* the matcher of the second scope ran on a target of two entries after the
\* adapter had appended two synthetic labels in the first scope
C28_Witness ==
    /\ pc = "matched"
    /\ scope = 2
    /\ fake_query_labels.given
    /\ vq_number = 2
    /\ Len(new_targets.labels) = 4
    /\ Len(indices.tgt) = 2

====
